---- MODULE Spec2Model ----
(***************************************************************************)
(* Quest Board: a When2Meet-style scheduler.  The repository holds three   *)
(* backend variants of one Express application:                            *)
(*   "server"  src/server.js            hosted database, accounts, event   *)
(*                                      update                             *)
(*   "sqljs"   src/unnamed/part_001     embedded sql.js database, every    *)
(*                                      handler synchronous                *)
(*   "basic"   src/unnamed/part_002     hosted database, no event update   *)
(* The model holds the database tables, the requests in flight (one        *)
(* position per awaited database call) and the last response sent.         *)
(* Display-only columns (images, tags, completed, comment switches,        *)
(* timestamps) are left out.                                               *)
(***************************************************************************)
EXTENDS Integers, Sequences, FiniteSets, TLC

(***************************************************************************)
(* Bounds of the model.                                                    *)
(***************************************************************************)
MaxRequests == 3

(***************************************************************************)
(* Program constants.                                                      *)
(***************************************************************************)
DefaultStartHour == 9
DefaultEndHour == 22
\* INSERT INTO events names 7 columns and gives 6 "?" placeholders.
EventInsertColumns == 7
EventInsertPlaceholders == 6

Variants == {"server", "sqljs", "basic"}
Hosted(v) == v \in {"server", "basic"}

(***************************************************************************)
(* Strings that are taken apart are sequences of one-character strings.    *)
(***************************************************************************)
DigitChars == <<"0", "1", "2", "3", "4", "5", "6", "7", "8", "9">>
IsDigit(c) == \E i \in 1..Len(DigitChars) : DigitChars[i] = c
DigitValue(c) == (CHOOSE i \in 1..Len(DigitChars) : DigitChars[i] = c) - 1

RECURSIVE NumToStr(_)
NumToStr(n) ==
    IF n < 10 THEN <<DigitChars[n + 1]>>
    ELSE NumToStr(n \div 10) \o <<DigitChars[(n % 10) + 1]>>

RECURSIVE StrToNum(_)
StrToNum(s) ==
    IF Len(s) = 0 THEN 0
    ELSE 10 * StrToNum(SubSeq(s, 1, Len(s) - 1)) + DigitValue(s[Len(s)])

AllDigits(s) == Len(s) > 0 /\ \A i \in 1..Len(s) : IsDigit(s[i])

\* "YYYY-MM-DD"
IsIsoDate(s) ==
    /\ Len(s) = 10
    /\ \A i \in 1..10 : IF i \in {5, 8} THEN s[i] = "-" ELSE IsDigit(s[i])

(***************************************************************************)
(* Slot key scheme: "<ISO date>-<hour>", e.g. "2024-06-01-14".             *)
(***************************************************************************)
makeSlotKey(date, hour) == date \o <<"-">> \o NumToStr(hour)

LastDash(key) ==
    LET at == {i \in 1..Len(key) : key[i] = "-"}
    IN  IF at = {} THEN 0 ELSE CHOOSE i \in at : \A j \in at : j <= i

FirstDash(key) ==
    LET at == {i \in 1..Len(key) : key[i] = "-"}
    IN  IF at = {} THEN 0 ELSE CHOOSE i \in at : \A j \in at : i <= j

\* parseSlotKey splitting at the first "-" instead of the last.
parseSlotKeyAtFirstDash(key) ==
    LET i == FirstDash(key)
        d == SubSeq(key, 1, i - 1)
        h == SubSeq(key, i + 1, Len(key))
    IN  IF i = 0 \/ ~AllDigits(h) \/ ~IsIsoDate(d)
        THEN [ok |-> FALSE, date |-> <<>>, hour |-> 0]
        ELSE [ok |-> TRUE, date |-> d, hour |-> StrToNum(h)]

\* [ok, date, hour]; ok is FALSE when the key has no "<date>-<digits>" shape.
parseSlotKey(key) ==
    LET i == LastDash(key)
        d == SubSeq(key, 1, i - 1)
        h == SubSeq(key, i + 1, Len(key))
    IN  IF i = 0 \/ ~AllDigits(h) \/ ~IsIsoDate(d)
        THEN [ok |-> FALSE, date |-> <<>>, hour |-> 0]
        ELSE [ok |-> TRUE, date |-> d, hour |-> StrToNum(h)]

(***************************************************************************)
(* JavaScript values.                                                      *)
(***************************************************************************)
\* An optional request field is <<>> when missing and <<v>> when present.
Missing == <<>>
Given(v) == <<v>>
IsMissing(f) == f = <<>>

\* x || dflt for a numeric field: undefined and 0 are falsy.
NumOr(f, dflt) == IF IsMissing(f) \/ f[1] = 0 THEN dflt ELSE f[1]
\* x || dflt for a string field: undefined and "" are falsy.
StrOr(f, dflt) == IF IsMissing(f) \/ f[1] = "" THEN dflt ELSE f[1]

\* The id of no user: req.user is null, creator_id / user_id is NULL.
NullId == 0

\* A plain object {} used as a map: its own keys in insertion order, and
\* their values.  JSON.stringify writes own properties only.
EmptyObject == [keys |-> <<>>, val |-> <<>>]
HasOwn(obj, k) == \E i \in 1..Len(obj.keys) : obj.keys[i] = k
OwnKeys(obj) == {obj.keys[i] : i \in 1..Len(obj.keys)}

\* obj[k] = v on a plain object.  "__proto__" is the accessor inherited from
\* Object.prototype: assigning an object to it replaces obj's prototype and
\* creates no own property.
ObjSet(obj, k, v) ==
    IF k = "__proto__" THEN obj
    ELSE [keys |-> IF HasOwn(obj, k) THEN obj.keys ELSE Append(obj.keys, k),
          val |-> [x \in OwnKeys(obj) \cup {k} |-> IF x = k THEN v ELSE obj.val[x]]]

\* toLowerCase on the user names of the model.
ToLowerCase(s) ==
    CASE s = "Ann" -> "ann"
      [] s = "Bob" -> "bob"
      [] s = "Cara" -> "cara"
      [] OTHER -> s

(***************************************************************************)
(* Password hashing and tokens.                                            *)
(***************************************************************************)
Salts == {"5a17"}
\* The digest is determined by, and determines, password and salt.
Pbkdf2(password, salt) == <<password, salt>>
hashPassword(password, salt) == [salt |-> salt, hash |-> Pbkdf2(password, salt)]

\* verifyPassword accepting every password.
verifyPasswordAlways(password, stored) == TRUE

\* verifyPassword(password, stored): the digest of the password under the
\* stored salt is the stored digest.
verifyPassword(password, stored) == Pbkdf2(password, stored.salt) = stored.hash

NoToken == ""
BadToken == "f00d"
\* 32 random bytes: the n-th token issued differs from every other.
generateToken(n) == "tok" \o ToString(n)

(***************************************************************************)
(* Request inputs of the model.                                            *)
(***************************************************************************)
D1 == <<"2", "0", "2", "4", "-", "0", "6", "-", "0", "1">>
D2 == <<"2", "0", "2", "4", "-", "0", "6", "-", "0", "2">>
NotAKey == <<"s", "o", "o", "n">>

Slot(a, n) == [available |-> a, note |-> n]
NoSlots == [k \in {} |-> Slot(TRUE, "")]
SlotsTwo ==
    (makeSlotKey(D1, 18) :> Slot(TRUE, "remote")) @@ (makeSlotKey(D1, 19) :> Slot(TRUE, ""))
SlotsOne == makeSlotKey(D1, 19) :> Slot(TRUE, "")
SlotsStray ==
    (NotAKey :> Slot(TRUE, "")) @@ (makeSlotKey(D1, 18) :> Slot(FALSE, "maybe"))
SlotMaps == {NoSlots, SlotsTwo, SlotsOne, SlotsStray}

\* What a client may send as username and as password: none, one that is too
\* short, the name and the password of the first hosted user, and a new name in
\* two spellings.
Usernames == {"", "al", "ann", "Cara", "cara"}
Passwords == {"", "abc", "hunter2", "n3wpass"}

ParticipantNames == {"", "Aria", "Bram", "__proto__"}
\* crypto.randomBytes(4).toString('hex') draws one of these.
EventIds == {"a1b2c3d4", "deadbeef"}

EventBody(n, d, ds, sh, eh) ==
    [name |-> n, description |-> d, dates |-> ds, startHour |-> sh, endHour |-> eh]
EventBodies ==
    { EventBody("Raid", Given("boss"), <<D1, D2>>, Given(18), Given(20)),
      EventBody("Raid", Missing, <<D1>>, Missing, Missing),
      EventBody("Feast", Missing, <<D1>>, Given(0), Given(5)),
      EventBody("", Missing, <<>>, Missing, Missing) }
UpdateBodies ==
    { EventBody("Raid II", Given("moved"), <<D2>>, Given(20), Given(22)),
      EventBody("Raid II", Missing, <<D1>>, Given(22), Given(10)) }

(***************************************************************************)
(* JSON text, as sql.js stores it in a TEXT column.  An array is written   *)
(* <<"[", e1, e2, ..., "]">>, an object <<"{", <<k1, v1>>, ..., "}">>.      *)
(***************************************************************************)
JsonStringifyList(l) == <<"[">> \o l \o <<"]">>
JsonParseList(t) == SubSeq(t, 2, Len(t) - 1)

\* The members of a slot map in one fixed order.
Members(slots) ==
    LET ks == DOMAIN slots
        n == Cardinality(ks)
        order == CHOOSE f \in [1..n -> ks] : \A i, j \in 1..n : f[i] = f[j] => i = j
    IN  [i \in 1..n |-> <<order[i], slots[order[i]]>>]
JsonStringifyMap(slots) == <<"{">> \o Members(slots) \o <<"}">>
JsonParseMap(t) ==
    LET ms == SubSeq(t, 2, Len(t) - 1)
        ks == {ms[i][1] : i \in 1..Len(ms)}
        last(k) == CHOOSE i \in 1..Len(ms) :
                       ms[i][1] = k /\ \A j \in 1..Len(ms) : ms[j][1] = k => j <= i
    IN  [k \in ks |-> ms[last(k)][2]]

(***************************************************************************)
(* State.                                                                  *)
(***************************************************************************)
VARIABLES
    variant,        \* which backend is running
    users,          \* table users: sequence of rows
    sessions,       \* table sessions: set of rows
    events,         \* table events: sequence of rows
    availability,   \* table availability: sequence of rows, in scan order
    nextUserId,     \* the serial of users.id
    nextToken,      \* how many tokens generateToken has issued, plus one
    comments,       \* table comments: sequence of rows
    notifications,  \* table notifications: set of rows
    nextCommentId,  \* the serial of comments.id
    procs,          \* the requests in flight
    resp,           \* the response the last step sent, if it sent one
    requests,       \* how many requests have been received
    keyTest         \* the slot key scheme applied to one (date, hour)

vars ==
    <<variant, users, sessions, events, availability, nextUserId, nextToken,
      comments, notifications, nextCommentId, procs, resp, requests, keyTest>>
db == <<users, sessions, events, availability, nextUserId, nextToken,
        comments, notifications, nextCommentId>>

\* Two requests may be in flight at once.
Procs == {1, 2}
Idle == [pc |-> "idle"]
NoResp == [op |-> "none", status |-> 0]
KeyTestOff == [stage |-> "off"]

RECURSIVE Filter(_, _)
\* The rows of tbl whose index is in keep, in order.
Filter(tbl, keep) ==
    IF Len(tbl) = 0 THEN <<>>
    ELSE Filter(SubSeq(tbl, 1, Len(tbl) - 1), keep)
             \o (IF Len(tbl) \in keep THEN <<tbl[Len(tbl)]>> ELSE <<>>)

(***************************************************************************)
(* Table events.                                                           *)
(***************************************************************************)
EventsWithId(tbl, id) == {i \in 1..Len(tbl) : tbl[i].id = id}

\* select ... .eq('id', id).single(): the row when exactly one matches,
\* else no data.  db.exec(SELECT ... WHERE id = ?): the first row.
SelectEvent(tbl, id) ==
    LET at == EventsWithId(tbl, id)
    IN  IF at = {} THEN <<>>
        ELSE IF variant = "sqljs" THEN <<tbl[CHOOSE i \in at : \A j \in at : i <= j]>>
        ELSE IF Cardinality(at) = 1 THEN <<tbl[CHOOSE i \in at : TRUE]>>
        ELSE <<>>

\* The hosted table: id is its primary key, and creator_id references a
\* stored user.
HostedInsertEvent(tbl, row) ==
    IF \/ EventsWithId(tbl, row.id) # {}
       \/ row.creator_id # NullId /\ \A i \in 1..Len(users) : users[i].id # row.creator_id
    THEN [error |-> TRUE, table |-> tbl]
    ELSE [error |-> FALSE, table |-> Append(tbl, row)]

\* db.run(INSERT INTO events (7 columns) VALUES (6 placeholders), [7 values]):
\* preparing the statement fails unless the counts agree; id TEXT PRIMARY KEY.
SqlInsertEvent(tbl, row) ==
    IF EventInsertPlaceholders # EventInsertColumns \/ EventsWithId(tbl, row.id) # {}
    THEN [error |-> TRUE, table |-> tbl]
    ELSE [error |-> FALSE, table |-> Append(tbl, row)]

\* The columns as each variant writes them.
DatesColumn(dates) == IF variant = "sqljs" THEN JsonStringifyList(dates) ELSE dates
SlotsColumn(slots) == IF variant = "sqljs" THEN JsonStringifyMap(slots) ELSE slots
\* ... and reads them back.
DatesOf(row) == IF variant = "sqljs" THEN JsonParseList(row.dates) ELSE row.dates
SlotsOf(row) == IF variant = "sqljs" THEN JsonParseMap(row.slots) ELSE row.slots

\* The row POST /api/events inserts.
NewEventRow(eventId, body, creatorId) ==
    [id |-> eventId,
     name |-> body.name,
     description |-> StrOr(body.description, ""),
     dates |-> DatesColumn(body.dates),
     start_hour |-> NumOr(body.startHour, DefaultStartHour),
     end_hour |-> NumOr(body.endHour, DefaultEndHour),
     creator_id |-> creatorId]

\* update({...}).eq('id', id): a field of the body that is undefined is not
\* sent, and its column keeps its value.
UpdatedEventRow(row, body) ==
    [row EXCEPT
       !.name = body.name,
       !.description = StrOr(body.description, ""),
       !.dates = DatesColumn(body.dates),
       !.start_hour = IF IsMissing(body.startHour) THEN @ ELSE body.startHour[1],
       !.end_hour = IF IsMissing(body.endHour) THEN @ ELSE body.endHour[1]]
UpdateEvents(tbl, id, body) ==
    [i \in 1..Len(tbl) |-> IF tbl[i].id = id THEN UpdatedEventRow(tbl[i], body) ELSE tbl[i]]

\* delete().eq('id', id)
DeleteEvents(tbl, id) == Filter(tbl, (1..Len(tbl)) \ EventsWithId(tbl, id))

(***************************************************************************)
(* Foreign keys.  The schema of the repository declares                    *)
(*   availability.event_id REFERENCES events(id)                           *)
(*   availability.user_id, events.creator_id, sessions.user_id             *)
(*                                          REFERENCES users(id)           *)
(* with no ON DELETE action.  The hosted database enforces them: a write   *)
(* that would leave a dangling reference fails as a whole and changes      *)
(* nothing.  sql.js leaves foreign keys unenforced (no PRAGMA              *)
(* foreign_keys = ON).                                                     *)
(***************************************************************************)
ForeignKeysEnforced == Hosted(variant)

\* Is the event referenced by an availability row?
EventReferenced(avail, id) ==
    ForeignKeysEnforced /\ \E i \in 1..Len(avail) : avail[i].event_id = id

\* Is the user referenced by an event, an availability row or a session?
UserReferenced(userId) ==
    /\ ForeignKeysEnforced
    /\ \/ \E i \in 1..Len(events) : events[i].creator_id = userId
       \/ \E i \in 1..Len(availability) : availability[i].user_id = userId
       \/ \E s \in sessions : s.user_id = userId

\* delete().eq('id', id) on the hosted table: refused while the event is
\* referenced.
HostedDeleteEvents(tbl, avail, id) ==
    IF EventReferenced(avail, id) THEN tbl ELSE DeleteEvents(tbl, id)

\* delete().eq('creator_id', userId): one statement, refused as a whole while
\* one of the user's events is referenced.
DeleteEventsOf(tbl, avail, userId) ==
    IF \E i \in 1..Len(tbl) : tbl[i].creator_id = userId /\ EventReferenced(avail, tbl[i].id)
    THEN tbl
    ELSE Filter(tbl, {i \in 1..Len(tbl) : tbl[i].creator_id # userId})

(***************************************************************************)
(* Table availability.                                                     *)
(***************************************************************************)
\* The conflict target taken to be the event alone.
AvailAtEvent(tbl, id, name) == {i \in 1..Len(tbl) : tbl[i].event_id = id}

AvailAt(tbl, id, name) ==
    {i \in 1..Len(tbl) : tbl[i].event_id = id /\ tbl[i].participant_name = name}
\* select('*').eq('event_id', id): the rows of the event, in scan order.
SelectAvailability(tbl, id) == Filter(tbl, {i \in 1..Len(tbl) : tbl[i].event_id = id})

\* A row whose empty slot set is replaced by a default one.
NewAvailRowDefaultSlots(id, name, userId, slots) ==
    [event_id |-> id, participant_name |-> name, user_id |-> userId,
     slots |-> SlotsColumn(IF slots = NoSlots THEN SlotsOne ELSE slots)]

NewAvailRow(id, name, userId, slots) ==
    [event_id |-> id, participant_name |-> name, user_id |-> userId,
     slots |-> SlotsColumn(slots)]

\* An upsert that never meets a conflict: a plain insert.
UpsertAlwaysInserts(tbl, row, moved) == Append(tbl, row)

\* upsert(row, {onConflict: 'event_id,participant_name'}): INSERT ... ON
\* CONFLICT (event_id, participant_name) DO UPDATE.  The new version of an
\* updated row keeps its place in the scan order or goes last (moved).
Upsert(tbl, row, moved) ==
    LET at == AvailAt(tbl, row.event_id, row.participant_name)
    IN  IF at = {} THEN Append(tbl, row)
        ELSE IF moved THEN Append(Filter(tbl, (1..Len(tbl)) \ at), row)
        ELSE [i \in 1..Len(tbl) |-> IF i \in at THEN row ELSE tbl[i]]

\* SELECT id ... WHERE event_id = ? AND participant_name = ?, then UPDATE the
\* matching rows or INSERT one.
SqlSaveAvailability(tbl, row) ==
    LET at == AvailAt(tbl, row.event_id, row.participant_name)
    IN  IF at # {}
        THEN [i \in 1..Len(tbl) |-> IF i \in at THEN row ELSE tbl[i]]
        ELSE Append(tbl, row)

\* delete().eq('event_id', id)
DeleteAvailabilityOf(tbl, id) ==
    Filter(tbl, {i \in 1..Len(tbl) : tbl[i].event_id # id})

\* delete().eq('event_id', id).eq('participant_name', name)
DeleteAvailability(tbl, id, name) ==
    Filter(tbl, (1..Len(tbl)) \ AvailAt(tbl, id, name))

(***************************************************************************)
(* The body GET /api/events/:id answers with.                              *)
(***************************************************************************)
RECURSIVE AvailabilityObject(_)
\* rows.forEach(row => availability[row.participant_name] = row.slots)
AvailabilityObject(rows) ==
    IF Len(rows) = 0 THEN EmptyObject
    ELSE ObjSet(AvailabilityObject(SubSeq(rows, 1, Len(rows) - 1)),
                rows[Len(rows)].participant_name, SlotsOf(rows[Len(rows)]))

EventResponse(event, rows) ==
    [id |-> event.id,
     name |-> event.name,
     description |-> event.description,
     dates |-> DatesOf(event),
     startHour |-> event.start_hour,
     endHour |-> event.end_hour,
     creatorId |-> event.creator_id,
     participants |-> [i \in 1..Len(rows) |-> rows[i].participant_name],
     availability |-> AvailabilityObject(rows)]

(***************************************************************************)
(* Sessions and users.                                                     *)
(***************************************************************************)
\* authenticateToken: the id of the user whose session the token names, or
\* NullId.
AuthUser(token) ==
    LET ss == {s \in sessions : s.token = token}
    IN  IF token = NoToken \/ Cardinality(ss) # 1 THEN NullId
        ELSE LET s == CHOOSE x \in ss : TRUE
             IN  IF \E i \in 1..Len(users) : users[i].id = s.user_id
                 THEN s.user_id ELSE NullId


(***************************************************************************)
(* Requests.  A field of a request is drawn at the step that first reads   *)
(* it: the request is fixed when it arrives, and no step reads the field   *)
(* earlier.                                                                *)
(***************************************************************************)
\* What a client may send as its bearer token: none, one that names no
\* session, or one that was issued.
IssuedTokens == {generateToken(n) : n \in 1..(nextToken - 1)}
ClientTokens == {NoToken, BadToken} \cup IssuedTokens
\* The requesters of the routes that only record who asked.
RecordedTokens == {NoToken} \cup (IssuedTokens \cap {generateToken(1)})

\* A request is taken up while fewer than MaxRequests have been; sql.js
\* handlers are synchronous, so none starts while another is running.
CanReceive(p) ==
    /\ procs[p] = Idle
    /\ \A q \in Procs : q < p => procs[q] # Idle
    /\ requests < MaxRequests
    /\ variant = "sqljs" => \A q \in Procs : procs[q] = Idle

Response(req, user, status, out) ==
    [op |-> req.op, status |-> status, req |-> req, user |-> user, out |-> out]

\* The handler goes on to its next query.
Continue(p, pc, req, user, tmp) ==
    /\ procs' = [procs EXCEPT ![p] = [pc |-> pc, req |-> req, user |-> user, tmp |-> tmp]]
    /\ resp' = NoResp

\* The handler answers and ends.
Respond(p, req, user, status, out) ==
    /\ procs' = [procs EXCEPT ![p] = Idle]
    /\ resp' = Response(req, user, status, out)

At(p, pc) == procs[p].pc = pc

\* The hosted database outlives the server: it holds two registered users,
\* each with the session registration gave it, and one event the first user
\* created.  The sql.js database is created empty when the server starts.
RegisteredUser(id, username, password) ==
    [id |-> id, username |-> ToLowerCase(username),
     password |-> hashPassword(password, CHOOSE x \in Salts : TRUE),
     display_name |-> username]

InitDatabase ==
    /\ variant \in Variants
    /\ users = IF Hosted(variant)
               THEN <<RegisteredUser(1, "Ann", "hunter2"), RegisteredUser(2, "bob", "s3cret")>>
               ELSE <<>>
    /\ sessions = IF Hosted(variant)
                  THEN {[token |-> generateToken(n), user_id |-> n] : n \in 1..2}
                  ELSE {}
    /\ events = IF Hosted(variant)
                THEN <<NewEventRow("a1b2c3d4",
                                   EventBody("Raid", Given("boss"), <<D1, D2>>,
                                             Given(18), Given(20)), 1)>>
                ELSE <<>>
    /\ availability = <<>>
    /\ nextUserId = Len(users) + 1
    /\ nextToken = Cardinality(sessions) + 1
    /\ comments = <<>>
    /\ notifications = {}
    /\ nextCommentId = 1
    /\ procs = [p \in Procs |-> Idle]
    /\ resp = NoResp
    /\ requests = 0

Init == InitDatabase /\ keyTest = KeyTestOff

(***************************************************************************)
(* POST /api/events                                                        *)
(***************************************************************************)
ValidEventBody(body) == body.name # "" /\ Len(body.dates) # 0

CreateEventAuthenticate(p) ==
    /\ CanReceive(p)
    /\ requests' = requests + 1
    /\ \E t \in RecordedTokens, b \in EventBodies :
        LET req == [op |-> "create", token |-> t, body |-> b]
            user == AuthUser(t)
        IN  IF ValidEventBody(b)
            THEN Continue(p, "create_insert", req, user, <<>>)
            ELSE Respond(p, req, user, 400, <<>>)
    /\ UNCHANGED <<variant, db, keyTest>>

InsertEvent(tbl, row) ==
    IF variant = "sqljs" THEN SqlInsertEvent(tbl, row) ELSE HostedInsertEvent(tbl, row)

\* The handler not looking at the insert's error.
CreateEventStatusIgnoresError(ins) == 200

\* The answer to the insert's outcome: "if (error) throw error" and the catch
\* answer 500; sql.js throws into Express, which answers 500.
CreateEventStatus(ins) == IF ins.error THEN 500 ELSE 200

CreateEventInsert(p) ==
    /\ At(p, "create_insert")
    /\ \E eventId \in EventIds :
        LET req == procs[p].req
            ins == InsertEvent(events, NewEventRow(eventId, req.body, procs[p].user))
        IN  /\ events' = ins.table
            /\ Respond(p, req, procs[p].user, CreateEventStatus(ins),
                       [id |-> eventId, existed |-> EventsWithId(events, eventId) # {}])
    /\ UNCHANGED <<variant, users, sessions, availability, nextUserId, nextToken,
                   requests, keyTest, comments, notifications, nextCommentId>>

(***************************************************************************)
(* GET /api/events/:id                                                     *)
(***************************************************************************)
GetEventSelect(p) ==
    /\ CanReceive(p)
    /\ requests' = requests + 1
    /\ \E id \in EventIds :
        LET req == [op |-> "get", id |-> id]
            found == SelectEvent(events, id)
        IN  IF found = <<>>
            THEN Respond(p, req, NullId, 404, <<>>)
            ELSE Continue(p, "get_availability", req, NullId, found[1])
    /\ UNCHANGED <<variant, db, keyTest>>

\* A read that removes the rows it has read.
GetEventAvailabilityConsumes(p) ==
    /\ At(p, "get_availability")
    /\ Respond(p, procs[p].req, NullId, 200,
               EventResponse(procs[p].tmp, SelectAvailability(availability, procs[p].req.id)))
    /\ availability' = DeleteAvailabilityOf(availability, procs[p].req.id)
    /\ UNCHANGED <<variant, users, sessions, events, nextUserId, nextToken,
                   requests, keyTest, comments, notifications, nextCommentId>>

GetEventAvailability(p) ==
    /\ At(p, "get_availability")
    /\ Respond(p, procs[p].req, NullId, 200,
               EventResponse(procs[p].tmp, SelectAvailability(availability, procs[p].req.id)))
    /\ UNCHANGED <<variant, db, requests, keyTest>>

(***************************************************************************)
(* PUT /api/events/:id (server.js only)                                    *)
(***************************************************************************)
\* requireAuth letting every request through.
AuthenticatedAnyone(user) == TRUE

\* requireAuth
Authenticated(user) == user # NullId

UpdateEventAuthenticate(p) ==
    /\ variant = "server"
    /\ CanReceive(p)
    /\ requests' = requests + 1
    /\ \E t \in ClientTokens :
        LET req == [op |-> "update", token |-> t]
            user == AuthUser(t)
        IN  IF Authenticated(user)
            THEN Continue(p, "update_check", req, user, <<>>)
            ELSE Respond(p, req, user, 401, <<>>)
    /\ UNCHANGED <<variant, db, keyTest>>

\* May the requester edit or delete the event?  Only its creator.
MayEdit(event, user) == event.creator_id = user

UpdateEventCheck(p) ==
    /\ At(p, "update_check")
    /\ \E id \in EventIds :
        LET req == procs[p].req @@ [id |-> id]
            found == SelectEvent(events, id)
        IN  IF found = <<>> THEN Respond(p, req, procs[p].user, 404, <<>>)
            ELSE IF ~MayEdit(found[1], procs[p].user)
            THEN Respond(p, req, procs[p].user, 403, <<>>)
            ELSE Continue(p, "update_write", req, procs[p].user, <<>>)
    /\ UNCHANGED <<variant, db, requests, keyTest>>

UpdateEventWrite(p) ==
    /\ At(p, "update_write")
    /\ \E b \in UpdateBodies :
        /\ events' = UpdateEvents(events, procs[p].req.id, b)
        /\ Respond(p, procs[p].req @@ [body |-> b], procs[p].user, 200, <<>>)
    /\ UNCHANGED <<variant, users, sessions, availability, nextUserId, nextToken,
                   requests, keyTest, comments, notifications, nextCommentId>>

(***************************************************************************)
(* DELETE /api/events/:id (server.js only)                                 *)
(***************************************************************************)
DeleteEventAuthenticate(p) ==
    /\ variant = "server"
    /\ CanReceive(p)
    /\ requests' = requests + 1
    /\ \E t \in ClientTokens :
        LET req == [op |-> "delete", token |-> t]
            user == AuthUser(t)
        IN  IF Authenticated(user)
            THEN Continue(p, "delete_check", req, user, <<>>)
            ELSE Respond(p, req, user, 401, <<>>)
    /\ UNCHANGED <<variant, db, keyTest>>

DeleteEventCheck(p) ==
    /\ At(p, "delete_check")
    /\ \E id \in EventIds :
        LET req == procs[p].req @@ [id |-> id]
            found == SelectEvent(events, id)
        IN  IF found = <<>> THEN Respond(p, req, procs[p].user, 404, <<>>)
            ELSE IF ~MayEdit(found[1], procs[p].user)
            THEN Respond(p, req, procs[p].user, 403, <<>>)
            ELSE Continue(p, "delete_availability", req, procs[p].user, <<>>)
    /\ UNCHANGED <<variant, db, requests, keyTest>>

DeleteEventAvailability(p) ==
    /\ At(p, "delete_availability")
    /\ availability' = DeleteAvailabilityOf(availability, procs[p].req.id)
    /\ Continue(p, "delete_event", procs[p].req, procs[p].user, <<>>)
    /\ UNCHANGED <<variant, users, sessions, events, nextUserId, nextToken,
                   requests, keyTest, comments, notifications, nextCommentId>>

DeleteEventRow(p) ==
    /\ At(p, "delete_event")
    /\ events' = HostedDeleteEvents(events, availability, procs[p].req.id)
    /\ Respond(p, procs[p].req, procs[p].user, 200, <<>>)
    /\ UNCHANGED <<variant, users, sessions, availability, nextUserId, nextToken,
                   requests, keyTest, comments, notifications, nextCommentId>>

(***************************************************************************)
(* DELETE /api/profile (server.js only).  The deletion of the user's       *)
(* adventurers, which the model does not hold, is part of the step that    *)
(* deletes the sessions.                                                   *)
(***************************************************************************)
DeleteProfileAuthenticate(p) ==
    /\ variant = "server"
    /\ CanReceive(p)
    /\ requests' = requests + 1
    /\ \E t \in ClientTokens :
        LET req == [op |-> "profile_delete", token |-> t]
            user == AuthUser(t)
        IN  IF Authenticated(user)
            THEN Continue(p, "profile_select", req, user, <<>>)
            ELSE Respond(p, req, user, 401, <<>>)
    /\ UNCHANGED <<variant, db, keyTest>>

\* select('id').eq('creator_id', userId)
EventIdsOf(tbl, userId) == {tbl[i].id : i \in {j \in 1..Len(tbl) : tbl[j].creator_id = userId}}

DeleteProfileSelectEvents(p) ==
    /\ At(p, "profile_select")
    /\ LET ids == EventIdsOf(events, procs[p].user)
       IN  Continue(p, IF ids = {} THEN "profile_events" ELSE "profile_availability",
                    procs[p].req, procs[p].user, ids)
    /\ UNCHANGED <<variant, db, requests, keyTest>>

DeleteProfileAvailability(p) ==
    /\ At(p, "profile_availability")
    /\ availability' = Filter(availability, {i \in 1..Len(availability) :
                                                availability[i].event_id \notin procs[p].tmp})
    /\ Continue(p, "profile_events", procs[p].req, procs[p].user, <<>>)
    /\ UNCHANGED <<variant, users, sessions, events, nextUserId, nextToken,
                   requests, keyTest, comments, notifications, nextCommentId>>

DeleteProfileEvents(p) ==
    /\ At(p, "profile_events")
    /\ events' = DeleteEventsOf(events, availability, procs[p].user)
    /\ Continue(p, "profile_sessions", procs[p].req, procs[p].user, <<>>)
    /\ UNCHANGED <<variant, users, sessions, availability, nextUserId, nextToken,
                   requests, keyTest, comments, notifications, nextCommentId>>

DeleteProfileSessions(p) ==
    /\ At(p, "profile_sessions")
    /\ sessions' = {s \in sessions : s.user_id # procs[p].user}
    /\ Continue(p, "profile_user", procs[p].req, procs[p].user, <<>>)
    /\ UNCHANGED <<variant, users, events, availability, nextUserId, nextToken,
                   requests, keyTest, comments, notifications, nextCommentId>>

\* delete().eq('id', userId) on users: refused while the user is referenced.
DeleteUser(tbl, userId) ==
    IF UserReferenced(userId) THEN tbl
    ELSE Filter(tbl, {i \in 1..Len(tbl) : tbl[i].id # userId})

DeleteProfileUser(p) ==
    /\ At(p, "profile_user")
    /\ users' = DeleteUser(users, procs[p].user)
    /\ Respond(p, procs[p].req, procs[p].user, 200, <<>>)
    /\ UNCHANGED <<variant, sessions, events, availability, nextUserId, nextToken,
                   requests, keyTest, comments, notifications, nextCommentId>>

(***************************************************************************)
(* POST /api/events/:id/availability                                       *)
(***************************************************************************)
SubmitAuthenticate(p) ==
    /\ CanReceive(p)
    /\ requests' = requests + 1
    /\ \E t \in RecordedTokens, n \in ParticipantNames :
        LET req == [op |-> "submit", token |-> t, participantName |-> n]
            user == AuthUser(t)
        IN  IF n = ""
            THEN Respond(p, req, user, 400, <<>>)
            ELSE Continue(p, "submit_check", req, user, <<>>)
    /\ UNCHANGED <<variant, db, keyTest>>

SubmitCheck(p) ==
    /\ At(p, "submit_check")
    /\ \E id \in EventIds :
        LET req == procs[p].req @@ [id |-> id]
        IN  IF SelectEvent(events, id) = <<>>
            THEN Respond(p, req, procs[p].user, 404, <<>>)
            ELSE Continue(p, "submit_save", req, procs[p].user, <<>>)
    /\ UNCHANGED <<variant, db, requests, keyTest>>

\* The row refers to no stored event (or, with a user id, to no stored
\* user): the hosted upsert fails.
SaveFailsNever(row) == FALSE

SaveFails(row) ==
    /\ ForeignKeysEnforced
    /\ \/ EventsWithId(events, row.event_id) = {}
       \/ row.user_id # NullId /\ \A i \in 1..Len(users) : users[i].id # row.user_id

\* The table after the handler's write.
SaveAvailability(tbl, row, moved) ==
    IF variant = "sqljs" THEN SqlSaveAvailability(tbl, row)
    ELSE IF SaveFails(row) THEN tbl
    ELSE Upsert(tbl, row, moved)

SubmitSave(p) ==
    /\ At(p, "submit_save")
    /\ \E s \in SlotMaps, moved \in BOOLEAN :
        LET req == procs[p].req @@ [slots |-> s]
            row == NewAvailRow(req.id, req.participantName, procs[p].user, s)
            old == AvailAt(availability, req.id, req.participantName)
        IN  /\ availability' = SaveAvailability(availability, row, moved)
            /\ Respond(p, req, procs[p].user, IF SaveFails(row) THEN 500 ELSE 200,
                       [previous |-> {SlotsOf(availability[i]) : i \in old}])
    /\ UNCHANGED <<variant, users, sessions, events, nextUserId, nextToken,
                   requests, keyTest, comments, notifications, nextCommentId>>

(***************************************************************************)
(* DELETE /api/events/:id/availability/:participantName (hosted variants)  *)
(***************************************************************************)
UnsubmitAuthenticate(p) ==
    /\ Hosted(variant)
    /\ CanReceive(p)
    /\ requests' = requests + 1
    /\ \E t \in {NoToken} :
          Continue(p, "unsubmit_delete", [op |-> "unsubmit", token |-> t], AuthUser(t), <<>>)
    /\ UNCHANGED <<variant, db, keyTest>>

UnsubmitDelete(p) ==
    /\ At(p, "unsubmit_delete")
    /\ \E id \in EventIds, n \in ParticipantNames \ {""} :
        /\ availability' = DeleteAvailability(availability, id, n)
        /\ Respond(p, procs[p].req @@ [id |-> id, participantName |-> n],
                   procs[p].user, 200, <<>>)
    /\ UNCHANGED <<variant, users, sessions, events, nextUserId, nextToken,
                   requests, keyTest, comments, notifications, nextCommentId>>

Next ==
    \E p \in Procs :
        \/ CreateEventAuthenticate(p)
        \/ CreateEventInsert(p)
        \/ GetEventSelect(p)
        \/ GetEventAvailability(p)
        \/ UpdateEventAuthenticate(p)
        \/ UpdateEventCheck(p)
        \/ UpdateEventWrite(p)
        \/ DeleteEventAuthenticate(p)
        \/ DeleteEventCheck(p)
        \/ DeleteEventAvailability(p)
        \/ DeleteEventRow(p)
        \/ DeleteProfileAuthenticate(p)
        \/ DeleteProfileSelectEvents(p)
        \/ DeleteProfileAvailability(p)
        \/ DeleteProfileEvents(p)
        \/ DeleteProfileSessions(p)
        \/ DeleteProfileUser(p)
        \/ SubmitAuthenticate(p)
        \/ SubmitCheck(p)
        \/ SubmitSave(p)
        \/ UnsubmitAuthenticate(p)
        \/ UnsubmitDelete(p)

Spec == Init /\ [][Next]_vars

(***************************************************************************)
(* Accounts: POST /api/auth/register.                                      *)
(***************************************************************************)
\* The rows of users with a username (stored lower-cased).
UsersNamed(tbl, name) == {i \in 1..Len(tbl) : tbl[i].username = name}

\* An insert into users that is never refused.
InsertUserFailsNever(tbl, row) == FALSE

\* users.username is UNIQUE: the insert of a stored name is refused.
InsertUserFails(tbl, row) == UsersNamed(tbl, row.username) # {}

InsertUser(tbl, row) == IF InsertUserFails(tbl, row) THEN tbl ELSE Append(tbl, row)

\* sessions.user_id refers to a user.
InsertSession(tbl, token, userId) ==
    IF ForeignKeysEnforced /\ \A i \in 1..Len(users) : users[i].id # userId
    THEN tbl
    ELSE tbl \cup {[token |-> token, user_id |-> userId]}

RegisterCheck(p) ==
    /\ CanReceive(p)
    /\ requests' = requests + 1
    /\ \E u \in Usernames, pw \in Passwords :
        LET req == [op |-> "register", username |-> u, password |-> pw]
        IN  IF u = "" \/ pw = "" \/ Len(u) < 3 \/ Len(pw) < 4
            THEN Respond(p, req, NullId, 400, <<>>)
            ELSE IF UsersNamed(users, ToLowerCase(u)) # {}
            THEN Respond(p, req, NullId, 400, <<>>)
            ELSE Continue(p, "register_insert", req, NullId, <<>>)
    /\ UNCHANGED <<variant, db, keyTest>>

RegisterInsert(p) ==
    /\ At(p, "register_insert")
    /\ LET req == procs[p].req
           row == RegisteredUser(nextUserId, req.username, req.password)
       IN  /\ users' = InsertUser(users, row)
           /\ IF InsertUserFails(users, row)
              THEN /\ nextUserId' = nextUserId
                   /\ Respond(p, req, NullId, 500, <<>>)
              ELSE /\ nextUserId' = nextUserId + 1
                   /\ Continue(p, "register_session", req, row.id, <<>>)
    /\ UNCHANGED <<variant, sessions, events, availability, nextToken, requests, keyTest, comments, notifications, nextCommentId>>

RegisterSession(p) ==
    /\ At(p, "register_session")
    /\ LET token == generateToken(nextToken)
       IN  /\ sessions' = InsertSession(sessions, token, procs[p].user)
           /\ Respond(p, procs[p].req, procs[p].user, 200, [token |-> token])
    /\ nextToken' = nextToken + 1
    /\ UNCHANGED <<variant, users, events, availability, nextUserId, requests, keyTest, comments, notifications, nextCommentId>>

(***************************************************************************)
(* POST /api/auth/login                                                    *)
(***************************************************************************)
LoginCheck(p) ==
    /\ CanReceive(p)
    /\ requests' = requests + 1
    /\ \E u \in Usernames, pw \in Passwords :
        LET req == [op |-> "login", username |-> u, password |-> pw]
            found == UsersNamed(users, ToLowerCase(u))
        IN  IF u = "" \/ pw = ""
            THEN Respond(p, req, NullId, 400, <<>>)
            ELSE IF Cardinality(found) # 1
            THEN Respond(p, req, NullId, 401, <<>>)
            ELSE LET user == users[CHOOSE i \in found : TRUE]
                 IN  IF verifyPassword(pw, user.password)
                     THEN Continue(p, "login_session", req, user.id, <<>>)
                     ELSE Respond(p, req, NullId, 401, <<>>)
    /\ UNCHANGED <<variant, db, keyTest>>

LoginSession(p) ==
    /\ At(p, "login_session")
    /\ LET token == generateToken(nextToken)
       IN  /\ sessions' = InsertSession(sessions, token, procs[p].user)
           /\ Respond(p, procs[p].req, procs[p].user, 200, [token |-> token])
    /\ nextToken' = nextToken + 1
    /\ UNCHANGED <<variant, users, events, availability, nextUserId, requests, keyTest, comments, notifications, nextCommentId>>

(***************************************************************************)
(* POST /api/auth/logout                                                   *)
(***************************************************************************)
\* A delete that removes every session of the user the token belongs to.
DeleteSessionsOfUser(tbl, token) ==
    {s \in tbl : \A x \in tbl : x.token = token => s.user_id # x.user_id}

\* delete().eq('token', token)
DeleteSession(tbl, token) == {s \in tbl : s.token # token}

LogoutAuthenticate(p) ==
    /\ CanReceive(p)
    /\ requests' = requests + 1
    /\ \E t \in ClientTokens :
        LET req == [op |-> "logout", token |-> t]
        IN  IF t = NoToken
            THEN Respond(p, req, NullId, 200, <<>>)
            ELSE Continue(p, "logout_delete", req, AuthUser(t), <<>>)
    /\ UNCHANGED <<variant, db, keyTest>>

LogoutDelete(p) ==
    /\ At(p, "logout_delete")
    /\ sessions' = DeleteSession(sessions, procs[p].req.token)
    /\ Respond(p, procs[p].req, procs[p].user, 200, <<>>)
    /\ UNCHANGED <<variant, users, events, availability, nextUserId, nextToken,
                   requests, keyTest, comments, notifications, nextCommentId>>

(***************************************************************************)
(* PUT /api/profile/password                                               *)
(***************************************************************************)
ChangePasswordAuthenticate(p) ==
    /\ CanReceive(p)
    /\ requests' = requests + 1
    /\ \E t \in ClientTokens, cur \in Passwords, new \in Passwords :
        LET req == [op |-> "password", token |-> t, currentPassword |-> cur,
                    newPassword |-> new]
            user == AuthUser(t)
        IN  IF ~Authenticated(user)
            THEN Respond(p, [op |-> "password", token |-> t], user, 401, <<>>)
            ELSE IF cur = "" \/ new = "" \/ Len(new) < 4
            THEN Respond(p, req, user, 400, <<>>)
            ELSE Continue(p, "password_read", req, user, <<>>)
    /\ UNCHANGED <<variant, db, keyTest>>

\* select('password').eq('id', req.user.id), then verifyPassword; a row that
\* is gone makes the handler throw.
ChangePasswordRead(p) ==
    /\ At(p, "password_read")
    /\ LET req == procs[p].req
           found == {i \in 1..Len(users) : users[i].id = procs[p].user}
       IN  IF found = {}
           THEN Respond(p, req, procs[p].user, 500, <<>>)
           ELSE IF verifyPassword(req.currentPassword, users[CHOOSE i \in found : TRUE].password)
           THEN Continue(p, "password_write", req, procs[p].user, <<>>)
           ELSE Respond(p, req, procs[p].user, 401, <<>>)
    /\ UNCHANGED <<variant, db, requests, keyTest>>

\* update({ password }).eq('id', id)
SetPassword(tbl, id, hashed) ==
    [i \in 1..Len(tbl) |-> IF tbl[i].id = id THEN [tbl[i] EXCEPT !.password = hashed]
                                            ELSE tbl[i]]

ChangePasswordWrite(p) ==
    /\ At(p, "password_write")
    /\ users' = SetPassword(users, procs[p].user,
                            hashPassword(procs[p].req.newPassword, CHOOSE x \in Salts : TRUE))
    /\ Respond(p, procs[p].req, procs[p].user, 200, <<>>)
    /\ UNCHANGED <<variant, sessions, events, availability, nextUserId, nextToken,
                   requests, keyTest, comments, notifications, nextCommentId>>

NextAuth ==
    \E p \in Procs :
        \/ RegisterCheck(p)
        \/ RegisterInsert(p)
        \/ RegisterSession(p)
        \/ LoginCheck(p)
        \/ LoginSession(p)
        \/ LogoutAuthenticate(p)
        \/ LogoutDelete(p)
        \/ ChangePasswordAuthenticate(p)
        \/ ChangePasswordRead(p)
        \/ ChangePasswordWrite(p)

SpecAuth == Init /\ [][NextAuth]_vars

(***************************************************************************)
(* Comments (server.js only): POST /api/events/:id/comments.  The tables   *)
(* comments and notifications are declared nowhere in the repository; they *)
(* are held without constraints.                                           *)
(***************************************************************************)
\* What a client may send as mentions: none, or one participant.
MentionSets == {{}, {"Bram"}}
CommenterNames == {"", "Aria"}

AddCommentAuthenticate(p) ==
    /\ variant = "server"
    /\ CanReceive(p)
    /\ requests' = requests + 1
    /\ \E t \in ClientTokens, id \in EventIds, name \in CommenterNames, ms \in MentionSets :
        LET req == [op |-> "comment", token |-> t, id |-> id, adventurerName |-> name,
                    mentions |-> ms]
        IN  IF name = ""
            THEN Respond(p, req, AuthUser(t), 400, <<>>)
            ELSE Continue(p, "comment_check", req, AuthUser(t), <<>>)
    /\ UNCHANGED <<variant, db, keyTest>>

AddCommentCheck(p) ==
    /\ At(p, "comment_check")
    /\ IF SelectEvent(events, procs[p].req.id) = <<>>
       THEN Respond(p, procs[p].req, procs[p].user, 404, <<>>)
       ELSE Continue(p, "comment_adventurer", procs[p].req, procs[p].user, <<>>)
    /\ UNCHANGED <<variant, db, requests, keyTest>>

\* The adventurer's image is looked up; the model does not hold it.
AddCommentAdventurer(p) ==
    /\ At(p, "comment_adventurer")
    /\ Continue(p, "comment_insert", procs[p].req, procs[p].user, <<>>)
    /\ UNCHANGED <<variant, db, requests, keyTest>>

NewComment(id, req, userId) ==
    [id |-> id, event_id |-> req.id, adventurer_name |-> req.adventurerName,
     user_id |-> userId]

AddCommentInsert(p) ==
    /\ At(p, "comment_insert")
    /\ comments' = Append(comments, NewComment(nextCommentId, procs[p].req, procs[p].user))
    /\ nextCommentId' = nextCommentId + 1
    /\ IF procs[p].req.mentions # {}
       THEN Continue(p, "comment_mentions", procs[p].req, procs[p].user, nextCommentId)
       ELSE Respond(p, procs[p].req, procs[p].user, 200, [id |-> nextCommentId])
    /\ UNCHANGED <<variant, users, sessions, events, availability, nextUserId, nextToken,
                   notifications, requests, keyTest>>

\* The users to notify: those with a row of the event under a mentioned
\* name that is not the commenter's.
Mentioned(tbl, req) ==
    {tbl[i].user_id : i \in {j \in 1..Len(tbl) :
                                /\ tbl[j].event_id = req.id
                                /\ tbl[j].participant_name \in req.mentions
                                /\ tbl[j].user_id # NullId
                                /\ tbl[j].participant_name # req.adventurerName}}

AddCommentMentions(p) ==
    /\ At(p, "comment_mentions")
    /\ LET to == Mentioned(availability, procs[p].req)
       IN  IF to # {}
           THEN Continue(p, "comment_notify", procs[p].req, procs[p].user,
                         [comment |-> procs[p].tmp, to |-> to])
           ELSE Respond(p, procs[p].req, procs[p].user, 200, [id |-> procs[p].tmp])
    /\ UNCHANGED <<variant, db, requests, keyTest>>

AddCommentNotify(p) ==
    /\ At(p, "comment_notify")
    /\ notifications' = notifications \cup
            {[user_id |-> u, event_id |-> procs[p].req.id,
              comment_id |-> procs[p].tmp.comment] : u \in procs[p].tmp.to}
    /\ Respond(p, procs[p].req, procs[p].user, 200, [id |-> procs[p].tmp.comment])
    /\ UNCHANGED <<variant, users, sessions, events, availability, nextUserId, nextToken,
                   comments, nextCommentId, requests, keyTest>>

(***************************************************************************)
(* DELETE /api/comments/:commentId                                         *)
(***************************************************************************)
\* req.user?.id of a request without a user, and event?.creator_id when no
\* event was found: undefined, which is not null.
Undefined == -1
RequesterId(user) == IF user = NullId THEN Undefined ELSE user
CreatorIdOf(found) == IF found = <<>> THEN Undefined ELSE found[1].creator_id

\* comment.user_id !== req.user?.id && event?.creator_id !== req.user?.id
CommentDeleteRefused(comment, found, user) ==
    /\ comment.user_id # RequesterId(user)
    /\ CreatorIdOf(found) # RequesterId(user)

CommentsWithId(tbl, id) == {i \in 1..Len(tbl) : tbl[i].id = id}

DeleteCommentAuthenticate(p) ==
    /\ variant = "server"
    /\ CanReceive(p)
    /\ requests' = requests + 1
    /\ \E t \in ClientTokens, c \in 1..nextCommentId :
        Continue(p, "uncomment_select", [op |-> "uncomment", token |-> t, commentId |-> c],
                 AuthUser(t), <<>>)
    /\ UNCHANGED <<variant, db, keyTest>>

DeleteCommentSelect(p) ==
    /\ At(p, "uncomment_select")
    /\ LET at == CommentsWithId(comments, procs[p].req.commentId)
       IN  IF Cardinality(at) # 1
           THEN Respond(p, procs[p].req, procs[p].user, 404, <<>>)
           ELSE Continue(p, "uncomment_event", procs[p].req, procs[p].user,
                         comments[CHOOSE i \in at : TRUE])
    /\ UNCHANGED <<variant, db, requests, keyTest>>

DeleteCommentEvent(p) ==
    /\ At(p, "uncomment_event")
    /\ IF CommentDeleteRefused(procs[p].tmp, SelectEvent(events, procs[p].tmp.event_id),
                               procs[p].user)
       THEN Respond(p, procs[p].req, procs[p].user, 403, <<>>)
       ELSE Continue(p, "uncomment_notifications", procs[p].req, procs[p].user, <<>>)
    /\ UNCHANGED <<variant, db, requests, keyTest>>

DeleteCommentNotifications(p) ==
    /\ At(p, "uncomment_notifications")
    /\ notifications' = {n \in notifications : n.comment_id # procs[p].req.commentId}
    /\ Continue(p, "uncomment_row", procs[p].req, procs[p].user, <<>>)
    /\ UNCHANGED <<variant, users, sessions, events, availability, nextUserId, nextToken,
                   comments, nextCommentId, requests, keyTest>>

DeleteCommentRow(p) ==
    /\ At(p, "uncomment_row")
    /\ comments' = Filter(comments, {i \in 1..Len(comments) :
                                        comments[i].id # procs[p].req.commentId})
    /\ Respond(p, procs[p].req, procs[p].user, 200, <<>>)
    /\ UNCHANGED <<variant, users, sessions, events, availability, nextUserId, nextToken,
                   notifications, nextCommentId, requests, keyTest>>

\* The hosted database as it is after the second user has submitted
\* availability as "Bram" for the first user's event.
InitComments ==
    /\ variant = "server"
    /\ users = <<RegisteredUser(1, "Ann", "hunter2"), RegisteredUser(2, "bob", "s3cret")>>
    /\ sessions = {[token |-> generateToken(n), user_id |-> n] : n \in 1..2}
    /\ events = <<NewEventRow("a1b2c3d4",
                              EventBody("Raid", Given("boss"), <<D1, D2>>, Given(18), Given(20)),
                              1)>>
    /\ availability = <<NewAvailRow("a1b2c3d4", "Bram", 2, SlotsOne)>>
    /\ nextUserId = 3
    /\ nextToken = 3
    /\ comments = <<>>
    /\ notifications = {}
    /\ nextCommentId = 1
    /\ procs = [p \in Procs |-> Idle]
    /\ resp = NoResp
    /\ requests = 0
    /\ keyTest = KeyTestOff

NextComments ==
    \E p \in Procs :
        \/ AddCommentAuthenticate(p)
        \/ AddCommentCheck(p)
        \/ AddCommentAdventurer(p)
        \/ AddCommentInsert(p)
        \/ AddCommentMentions(p)
        \/ AddCommentNotify(p)
        \/ DeleteCommentAuthenticate(p)
        \/ DeleteCommentSelect(p)
        \/ DeleteCommentEvent(p)
        \/ DeleteCommentNotifications(p)
        \/ DeleteCommentRow(p)
        \/ DeleteEventAuthenticate(p)
        \/ DeleteEventCheck(p)
        \/ DeleteEventAvailability(p)
        \/ DeleteEventRow(p)

SpecComments == InitComments /\ [][NextComments]_vars

(***************************************************************************)
(* The slot key scheme on its own: a (date, hour) is made into a key and   *)
(* the key is parsed.                                                      *)
(***************************************************************************)
KeyDates == {D1, D2, <<"1", "9", "9", "9", "-", "1", "2", "-", "3", "1">>}
Hours == 0..23

InitKey ==
    /\ InitDatabase
    /\ keyTest \in {[stage |-> "input", date |-> d, hour |-> h] : d \in KeyDates, h \in Hours}

MakeKey ==
    /\ keyTest.stage = "input"
    /\ keyTest' = [stage |-> "made", date |-> keyTest.date, hour |-> keyTest.hour,
                   key |-> makeSlotKey(keyTest.date, keyTest.hour)]
    /\ UNCHANGED <<variant, db, procs, resp, requests>>

ParseKey ==
    /\ keyTest.stage = "made"
    /\ keyTest' = [stage |-> "parsed", date |-> keyTest.date, hour |-> keyTest.hour,
                   key |-> keyTest.key, parsed |-> parseSlotKey(keyTest.key)]
    /\ UNCHANGED <<variant, db, procs, resp, requests>>

NextKey == MakeKey \/ ParseKey

SpecKey == InitKey /\ [][NextKey]_vars

(***************************************************************************)
(* What GET /api/events/:id would answer for a stored event now.           *)
(***************************************************************************)
Stored(id) == SelectEvent(events, id) # <<>>
View(id) == EventResponse(SelectEvent(events, id)[1], SelectAvailability(availability, id))

\* Has the step just taken answered a request of this kind with this status?
Answered(op, status) == resp.op = op /\ resp.status = status

(***************************************************************************)
(* C1  Full replace: when a participant who had submitted slots S1 for an  *)
(* event submits S2 and is answered 200, GET of the event (while it is     *)
(* stored) reports exactly S2 under that participant's name.               *)
(***************************************************************************)
C1_FullReplace ==
    (Answered("submit", 200) /\ resp.out.previous # {} /\ Stored(resp.req.id)) =>
        /\ HasOwn(View(resp.req.id).availability, resp.req.participantName)
        /\ View(resp.req.id).availability.val[resp.req.participantName] = resp.req.slots

(***************************************************************************)
(* C2  The availability table holds at most one row per (event id,         *)
(* participant name), in every state that submissions and deletions,       *)
(* interleaved in any way, can reach.                                      *)
(***************************************************************************)
C2_OneRowPerParticipant ==
    \A i, j \in 1..Len(availability) :
        (/\ availability[i].event_id = availability[j].event_id
         /\ availability[i].participant_name = availability[j].participant_name) => i = j

\* Of two submissions in flight for one (event, participant), both past the
\* check that the event exists, one has written its row and the other is
\* about to write.
C2_Witness ==
    /\ Answered("submit", 200)
    /\ \E q \in Procs :
          /\ procs[q].pc = "submit_save"
          /\ procs[q].req.id = resp.req.id
          /\ procs[q].req.participantName = resp.req.participantName

(***************************************************************************)
(* C3  In every variant, POST /api/events with a non-empty name and a      *)
(* non-empty dates list (drawing an id no stored event has) is answered    *)
(* 200 and stores the event, and GET with the returned id gives the        *)
(* submitted name, description and dates.                                  *)
(***************************************************************************)
C3_CreateSucceeds ==
    (resp.op = "create" /\ ValidEventBody(resp.req.body) /\ ~resp.out.existed) =>
        /\ resp.status = 200
        /\ Stored(resp.out.id)
        /\ View(resp.out.id).name = resp.req.body.name
        /\ View(resp.out.id).description = StrOr(resp.req.body.description, "")
        /\ View(resp.out.id).dates = resp.req.body.dates

(***************************************************************************)
(* C4  No two stored events share an id, and a POST /api/events answered   *)
(* 200 returns an id that named no stored event before and now names       *)
(* exactly the event just created.                                         *)
(***************************************************************************)
C4_EventIdsUnique ==
    /\ \A i, j \in 1..Len(events) : events[i].id = events[j].id => i = j
    /\ Answered("create", 200) =>
        /\ ~resp.out.existed
        /\ \E i \in 1..Len(events) :
              events[i] = NewEventRow(resp.out.id, resp.req.body, resp.user)

\* A create has drawn the id of a stored event.
C4_Witness == Answered("create", 500) /\ Hosted(variant) /\ resp.out.existed

(***************************************************************************)
(* C5  Every stored event has 0 <= start_hour < end_hour <= 23.            *)
(***************************************************************************)
C5_HoursInRange ==
    \A i \in 1..Len(events) :
        /\ 0 <= events[i].start_hour
        /\ events[i].start_hour < events[i].end_hour
        /\ events[i].end_hour <= 23

(***************************************************************************)
(* C6  Only its creator changes an event: a PUT /api/events/:id by a       *)
(* requester who is not authenticated as the creator of the stored event   *)
(* is answered 401 or 403, and a step that changes a stored event is the   *)
(* update of a requester authenticated as that event's creator.            *)
(***************************************************************************)
IsCreator(user, id) ==
    /\ user # NullId
    /\ \E i \in 1..Len(events) : events[i].id = id /\ events[i].creator_id = user

C6_Refused ==
    resp.op = "update" =>
        /\ resp.user = NullId => resp.status = 401
        /\ (resp.status # 401 /\ Stored(resp.req.id) /\ ~IsCreator(resp.user, resp.req.id))
               => resp.status = 403

C6_EditedByCreator ==
    \A i \in 1..Len(events) : \A j \in 1..Len(events') :
        (events'[j].id = events[i].id /\ events'[j] # events[i]) =>
            \E p \in Procs :
                /\ procs[p].pc = "update_write"
                /\ procs'[p] = Idle
                /\ procs[p].req.id = events[i].id
                /\ IsCreator(procs[p].user, events[i].id)

C6_OnlyCreatorEdits == [][C6_Refused' /\ C6_EditedByCreator]_vars

(***************************************************************************)
(* C7  A submission with a slot key that does not parse, or whose date is  *)
(* not one of the event's dates, or whose hour is outside [start_hour,     *)
(* end_hour), is answered 400 and stores nothing; so every stored slot key *)
(* names a date and an hour of its event.                                  *)
(***************************************************************************)
ValidSlotKey(key, event) ==
    LET k == parseSlotKey(key)
    IN  /\ k.ok
        /\ \E i \in 1..Len(DatesOf(event)) : DatesOf(event)[i] = k.date
        /\ event.start_hour <= k.hour
        /\ k.hour < event.end_hour

C7_SlotKeysValidated ==
    /\ \A i \in 1..Len(availability) :
          Stored(availability[i].event_id) =>
              \A key \in DOMAIN SlotsOf(availability[i]) :
                  ValidSlotKey(key, SelectEvent(events, availability[i].event_id)[1])
    /\ (/\ resp.op = "submit"
        /\ resp.status # 404
        /\ "slots" \in DOMAIN resp.req
        /\ \E key \in DOMAIN resp.req.slots : ~parseSlotKey(key).ok) => resp.status = 400

(***************************************************************************)
(* C8  Every stored slot entry marks its participant available: no entry   *)
(* with available = false, with or without a note, is stored.              *)
(***************************************************************************)
C8_StoredMeansAvailable ==
    \A i \in 1..Len(availability) :
        \A key \in DOMAIN SlotsOf(availability[i]) : SlotsOf(availability[i])[key].available

(***************************************************************************)
(* C9  For every ISO date d and hour h in 0..23, parsing makeSlotKey(d, h) *)
(* gives back (d, h), and no other (date, hour) makes the same key.        *)
(***************************************************************************)
C9_SlotKeyRoundTrip ==
    /\ keyTest.stage = "parsed" =>
          /\ keyTest.parsed.ok
          /\ keyTest.parsed.date = keyTest.date
          /\ keyTest.parsed.hour = keyTest.hour
    /\ keyTest.stage \in {"made", "parsed"} =>
          \A d \in KeyDates, h \in Hours :
              makeSlotKey(d, h) = keyTest.key => (d = keyTest.date /\ h = keyTest.hour)

\* A key with a two-digit hour has been made and parsed.
C9_Witness == keyTest.stage = "parsed" /\ keyTest.hour >= 10

(***************************************************************************)
(* C10  GET /api/events/:id is lossless: its participants list holds each  *)
(* name with an availability row of the event exactly once, its            *)
(* availability map has an entry for exactly those names, holding the      *)
(* row's slots, and so the count of names marked at a slot equals the      *)
(* number of rows whose slots hold it.                                     *)
(***************************************************************************)
RowsOf(id) == SelectAvailability(availability, id)
NamesOf(id) == {RowsOf(id)[i].participant_name : i \in 1..Len(RowsOf(id))}
AllSlotKeys == UNION {DOMAIN s : s \in SlotMaps}
\* The heat-map count of a slot, from the body of the answer.
CountIn(body, key) ==
    Cardinality({n \in OwnKeys(body.availability) : key \in DOMAIN body.availability.val[n]})
CountStored(id, key) ==
    Cardinality({i \in 1..Len(RowsOf(id)) : key \in DOMAIN SlotsOf(RowsOf(id)[i])})

C10_GetIsLossless ==
    Answered("get", 200) =>
        LET body == resp.out
            id == resp.req.id
        IN  /\ \A n \in NamesOf(id) :
                  Cardinality({i \in 1..Len(body.participants) : body.participants[i] = n}) = 1
            /\ {body.participants[i] : i \in 1..Len(body.participants)} = NamesOf(id)
            /\ OwnKeys(body.availability) = NamesOf(id)
            /\ \A i \in 1..Len(RowsOf(id)) :
                  body.availability.val[RowsOf(id)[i].participant_name] = SlotsOf(RowsOf(id)[i])
            /\ \A key \in AllSlotKeys : CountIn(body, key) = CountStored(id, key)

(***************************************************************************)
(* C11  Participant order is submission order: in the list GET answers     *)
(* with, two participants who both stay listed keep their relative order   *)
(* through every step, a resubmission by one of them included.             *)
(***************************************************************************)
OrdinaryNames == ParticipantNames \ {"", "__proto__"}
ParticipantsOf(id) == [i \in 1..Len(RowsOf(id)) |-> RowsOf(id)[i].participant_name]
PositionOf(list, name) == CHOOSE i \in 1..Len(list) : list[i] = name

C11_OrderStable ==
    [][\A id \in EventIds : \A a, b \in OrdinaryNames \cap NamesOf(id) :
          (/\ PositionOf(ParticipantsOf(id), a) < PositionOf(ParticipantsOf(id), b)
           /\ a \in NamesOf(id)'
           /\ b \in NamesOf(id)') =>
              PositionOf(ParticipantsOf(id)', a) < PositionOf(ParticipantsOf(id)', b)]_vars

(***************************************************************************)
(* C12  Reads are idempotent and free of side effects: no step of a GET    *)
(* /api/events/:id changes a table, and a GET answered right after another *)
(* GET of the same event, neither having seen a write since it began,      *)
(* gives the same answer.                                                  *)
(***************************************************************************)
GetStep(p) ==
    \/ procs[p] = Idle /\ procs'[p] # Idle /\ procs'[p].req.op = "get"
    \/ procs[p] = Idle /\ resp'.op = "get"
    \/ procs[p] # Idle /\ procs[p].req.op = "get" /\ procs'[p] # procs[p]

RowsByEvent(tbl) == [id \in EventIds |-> SelectAvailability(tbl, id)]
OthersOf(tbl, id, name) ==
    Filter(tbl, {i \in 1..Len(tbl) : tbl[i].event_id = id /\ tbl[i].participant_name # name})

C13_Isolated ==
    \A p \in Procs :
        (At(p, "submit_save") /\ procs'[p] = Idle) =>
            /\ events' = events
            /\ \A id \in EventIds \ {procs[p].req.id} :
                  SelectAvailability(availability', id) = SelectAvailability(availability, id)
            /\ OthersOf(availability', procs[p].req.id, procs[p].req.participantName)
                  = OthersOf(availability, procs[p].req.id, procs[p].req.participantName)

C13_Commute ==
    \A p, q \in Procs :
        (/\ At(p, "submit_save")
         /\ At(q, "submit_save")
         /\ procs[p].req.id # procs[q].req.id) =>
            \A s1, s2 \in SlotMaps, m1, m2 \in BOOLEAN :
                LET r1 == NewAvailRow(procs[p].req.id, procs[p].req.participantName,
                                      procs[p].user, s1)
                    r2 == NewAvailRow(procs[q].req.id, procs[q].req.participantName,
                                      procs[q].user, s2)
                IN  RowsByEvent(SaveAvailability(SaveAvailability(availability, r1, m1), r2, m2))
                      = RowsByEvent(SaveAvailability(SaveAvailability(availability, r2, m2), r1, m1))

C13_SubmissionsIndependent == []C13_Commute /\ [][C13_Isolated]_vars

\* One of two submissions in flight for different stored events has been
\* written, the other is about to be.
C13_Witness ==
    /\ Answered("submit", 200)
    /\ Stored(resp.req.id)
    /\ \E q \in Procs :
          /\ At(q, "submit_save")
          /\ procs[q].req.id # resp.req.id
          /\ Stored(procs[q].req.id)

(***************************************************************************)
(* C14  A participant whose submission with an empty slot set for a stored *)
(* event is answered 200 is listed in the participants GET answers with,   *)
(* and is available at no slot in its availability map.                    *)
(***************************************************************************)
C14_EmptySubmissionListed ==
    (/\ Answered("submit", 200)
     /\ resp.req.slots = NoSlots
     /\ Stored(resp.req.id)) =>
        LET body == View(resp.req.id)
            name == resp.req.participantName
        IN  /\ \E i \in 1..Len(body.participants) : body.participants[i] = name
            /\ HasOwn(body.availability, name) => DOMAIN body.availability.val[name] = {}
            /\ \A key \in AllSlotKeys :
                  CountIn(body, key)
                    = Cardinality({n \in OwnKeys(body.availability) \ {name} :
                                     key \in DOMAIN body.availability.val[n]})

\* An empty slot set submitted after a non-empty one.
C14_Witness ==
    /\ Answered("submit", 200)
    /\ resp.req.slots = NoSlots
    /\ Stored(resp.req.id)
    /\ \E s \in resp.out.previous : s # NoSlots

(***************************************************************************)
(* C19  Only its creator deletes an event: a DELETE /api/events/:id        *)
(* without a valid session is answered 401, a stored event disappears only *)
(* by a deletion its creator asked for, and when the DELETE is answered    *)
(* 200 the event and every availability row of the event are gone.         *)
(***************************************************************************)
C19_Answered ==
    resp.op = "delete" =>
        /\ resp.user = NullId => resp.status = 401
        /\ resp.status = 200 =>
              /\ ~Stored(resp.req.id)
              /\ \A i \in 1..Len(availability) : availability[i].event_id # resp.req.id

C19_RemovedByCreator ==
    \A i \in 1..Len(events) :
        (\A j \in 1..Len(events') : events'[j].id # events[i].id) =>
            \E p \in Procs :
                /\ procs[p].pc \in {"delete_event", "profile_events"}
                /\ procs'[p] # procs[p]
                /\ procs[p].user = events[i].creator_id

C19_OnlyCreatorDeletes == [][C19_Answered' /\ C19_RemovedByCreator]_vars

GuardedOps == {"update", "delete", "profile_delete", "password"}

C15_RequireAuth ==
    [][requests' = requests + 1 =>
          /\ (resp'.op \in GuardedOps /\ AuthUser(resp'.req.token) = NullId) =>
                 (resp'.status = 401 /\ db' = db)
          /\ \A p \in Procs :
                 (procs'[p] # procs[p] /\ procs'[p] # Idle /\ procs'[p].req.op \in GuardedOps)
                     => AuthUser(procs'[p].req.token) # NullId]_vars

\* A guarded route has refused a token that was issued and whose session is
\* gone.
C15_Witness ==
    /\ resp.op \in GuardedOps
    /\ resp.status = 401
    /\ resp.req.token \in IssuedTokens

(***************************************************************************)
(* C16  Logout revokes exactly one session: when a logout with token T     *)
(* completes, T authenticates nobody, every other token authenticates whom *)
(* it did before, and a token without a session never gets one again.      *)
(***************************************************************************)
HasSession(t) == \E s \in sessions : s.token = t

C16_LogoutRevokesOne ==
    [][/\ \A p \in Procs, T \in ClientTokens :
            (At(p, "logout_delete") /\ procs[p].req.token = T /\ procs'[p] = Idle) =>
                /\ AuthUser(T)' = NullId
                /\ \A t \in IssuedTokens \ {T} : AuthUser(t)' = AuthUser(t)
       /\ \A t \in IssuedTokens : ~HasSession(t) => ~HasSession(t)']_vars

\* A logout has ended a session of a user who still has another.
C16_Witness ==
    /\ Answered("logout", 200)
    /\ resp.user # NullId
    /\ ~HasSession(resp.req.token)
    /\ \E s \in sessions : s.user_id = resp.user

(***************************************************************************)
(* C17  A login is accepted, and then creates one session, exactly when    *)
(* the password supplied is the one stored for the username, and the       *)
(* stored one is the one last set by a registration or by a password       *)
(* change that succeeded; a change with a wrong current password is        *)
(* answered 401 and stores nothing; after a change to another password the *)
(* old one is not the stored one.                                          *)
(***************************************************************************)
\* The row holds what setting the password pw stores.
StoredPasswordIs(row, pw) == row.password = hashPassword(pw, row.password.salt)
\* The user named by a login request has pw as its password.
LogsIn(req) ==
    \E i \in UsersNamed(users, ToLowerCase(req.username)) : StoredPasswordIs(users[i], req.password)

C17_LoginByCurrentPassword ==
    [][/\ (requests' = requests + 1 /\ resp'.op = "login") =>
            (resp'.status \in {400, 401} /\ db' = db /\ ~LogsIn(resp'.req))
       /\ \A i \in 1..Len(users') :
            IF i <= Len(users)
            THEN users'[i].password # users[i].password =>
                    \E q \in Procs : /\ At(q, "password_write")
                                     /\ procs[q].user = users[i].id
                                     /\ StoredPasswordIs(users'[i], procs[q].req.newPassword)
            ELSE \E q \in Procs : /\ At(q, "register_insert")
                                  /\ users'[i].username = ToLowerCase(procs[q].req.username)
                                  /\ StoredPasswordIs(users'[i], procs[q].req.password)
       /\ \A p \in Procs :
            /\ (procs[p] = Idle /\ procs'[p].pc = "login_session") =>
                    (db' = db /\ LogsIn(procs'[p].req))
            /\ (At(p, "login_session") /\ procs'[p] # procs[p]) =>
                    /\ resp'.status = 200
                    /\ ~HasSession(resp'.out.token)
                    /\ sessions' = sessions \cup {[token |-> resp'.out.token,
                                                    user_id |-> procs[p].user]}
            /\ (At(p, "password_read") /\ procs'[p] # procs[p]) =>
                    /\ users' = users
                    /\ \A i \in 1..Len(users) : users[i].id = procs[p].user =>
                          IF StoredPasswordIs(users[i], procs[p].req.currentPassword)
                          THEN procs'[p].pc = "password_write"
                          ELSE procs'[p] = Idle /\ resp'.status = 401
            /\ (At(p, "password_write") /\ procs'[p] # procs[p]) =>
                    /\ resp'.status = 200
                    /\ \A i \in 1..Len(users) : users[i].id = procs[p].user =>
                          /\ StoredPasswordIs(users'[i], procs[p].req.newPassword)
                          /\ procs[p].req.currentPassword # procs[p].req.newPassword =>
                                ~StoredPasswordIs(users'[i], procs[p].req.currentPassword)]_vars

\* A hosted user's first password has been refused at login: it was changed.
C17_Witness ==
    /\ Hosted(variant)
    /\ Answered("login", 401)
    /\ resp.req.username = "ann"
    /\ resp.req.password = "hunter2"
    /\ \E i \in UsersNamed(users, "ann") : StoredPasswordIs(users[i], "n3wpass")

(***************************************************************************)
(* C18  No two users have the same lower-cased username, also when two     *)
(* registrations of one name are in flight together; the registration      *)
(* whose insert comes second is answered with an error and creates neither *)
(* a user nor a session.                                                   *)
(***************************************************************************)
UniqueUsernames ==
    \A i, j \in 1..Len(users) :
        ToLowerCase(users[i].username) = ToLowerCase(users[j].username) => i = j

C18_UsernamesUnique ==
    /\ UniqueUsernames
    /\ [][/\ UniqueUsernames'
           /\ \A p \in Procs :
                (/\ At(p, "register_insert")
                 /\ procs'[p] # procs[p]
                 /\ UsersNamed(users, ToLowerCase(procs[p].req.username)) # {}) =>
                    /\ procs'[p] = Idle
                    /\ resp'.status >= 400
                    /\ users' = users
                    /\ sessions' = sessions]_vars

\* A registration that passed the existence check has been refused at the
\* insert: the name was registered in between.
C18_Witness ==
    /\ Answered("register", 500)
    /\ UsersNamed(users, ToLowerCase(resp.req.username)) # {}

(***************************************************************************)
(* C21  Profile deletion removes the user and everything that refers to    *)
(* it: when DELETE /api/profile by user U has been answered 200 and no     *)
(* event of U is left, no user row, session or availability row refers to  *)
(* U, and no issued token authenticates as U.                              *)
(***************************************************************************)
CreatedBy(userId) == \E i \in 1..Len(events) : events[i].creator_id = userId
RefersTo(userId) ==
    \/ \E i \in 1..Len(users) : users[i].id = userId
    \/ \E s \in sessions : s.user_id = userId
    \/ \E i \in 1..Len(availability) : availability[i].user_id = userId

C21_ProfileRemoved ==
    (Answered("profile_delete", 200) /\ ~CreatedBy(resp.user)) =>
        /\ ~RefersTo(resp.user)
        /\ \A t \in IssuedTokens : AuthUser(t) # resp.user

(***************************************************************************)
(* C22  A comment is removed only by a DELETE /api/comments/:commentId     *)
(* whose requester is authenticated; a requester without a session never   *)
(* removes one.                                                            *)
(***************************************************************************)
C22_CommentDeletedByOwner ==
    [][\A i \in 1..Len(comments) :
          CommentsWithId(comments', comments[i].id) = {} =>
              \E p \in Procs :
                  /\ At(p, "uncomment_row")
                  /\ procs'[p] # procs[p]
                  /\ procs[p].req.commentId = comments[i].id
                  /\ Authenticated(procs[p].user)]_vars

====
